---- MODULE Spec2Model ----
(***************************************************************************)
(* Model of package jutf: the modified UTF-8 codec used by Java.           *)
(*                                                                         *)
(* A Go string and a []byte are both modelled as a sequence of bytes       *)
(* (0..255).  Indices are kept 0-based as in the source; At(d, k) is d[k]. *)
(* Encode ranges over its argument rune by rune (Go's UTF-8 decoding of    *)
(* the string), Decode is the fast path followed by the byte loop.         *)
(* The two drivers are those of the test file: TestEncodeDecodeAll         *)
(* (Encode, then Decode of the result) and TestDecode (Decode of raw       *)
(* bytes).                                                                 *)
(***************************************************************************)
EXTENDS Integers, Sequences, FiniteSets, TLC

VARIABLES
  test,   \* which driver runs: "roundtrip" or "decode"
  s,      \* Encode's argument (a Go string, as bytes)
  epos,   \* Encode: byte offset of the range loop in s
  ebuf,   \* Encode: buf (bytes.Buffer)
  d,      \* Decode's argument
  i,      \* Decode: loop index
  buf,    \* Decode: buf (bytes.Buffer)
  str,    \* Decode: returned string
  err,    \* Decode: returned error
  pc      \* "encode", "decode", "loop", "done", "panic"

vars == <<test, s, epos, ebuf, d, i, buf, str, err, pc>>

\* Number of fragments an input is concatenated from.
MaxUnits == 2

-----------------------------------------------------------------------------
(* Integer operators of the source, on non-negative values.                *)

\* The operands are bound as values (function arguments), bit by bit.
BitAndOf[a \in Nat, b \in Nat] ==
  IF a = 0 \/ b = 0 THEN 0
  ELSE (a % 2) * (b % 2) + 2 * BitAndOf[a \div 2, b \div 2]

BitOrOf[a \in Nat, b \in Nat] ==
  IF a = 0 THEN b
  ELSE IF b = 0 THEN a
  ELSE (IF a % 2 = 1 \/ b % 2 = 1 THEN 1 ELSE 0) + 2 * BitOrOf[a \div 2, b \div 2]

\* a & b
BitAnd(a, b) == BitAndOf[a, b]

\* a | b
BitOr(a, b) == BitOrOf[a, b]

Shl(a, n) == a * (2 ^ n)

Shr(a, n) == a \div (2 ^ n)

\* byte(x): conversion to uint8
Byte(x) == x % 256

\* d[k], 0-based.  An index past the end is a run-time panic in Go; the
\* loop body records the highest index it reads and the step panics then.
At(b, k) == IF k >= 0 /\ k < Len(b) THEN b[k + 1] ELSE 0

-----------------------------------------------------------------------------
(* unicode/utf8 as used by the source: range over a string, ValidString,   *)
(* and bytes.Buffer.WriteRune.                                             *)

RuneError == 65533

\* One step of `for _, r := range s`: the rune at byte offset p and its width.
\* Ill-formed UTF-8 yields (RuneError, 1).
DecodeRuneInString(b, p) ==
  LET b0 == At(b, p)
      bad == [r |-> RuneError, size |-> 1]
  IN IF b0 < \h80 THEN [r |-> b0, size |-> 1]
     ELSE IF b0 < \hC2 \/ b0 > \hF4 THEN bad
     ELSE
       LET sz == IF b0 < \hE0 THEN 2 ELSE IF b0 < \hF0 THEN 3 ELSE 4
           lo == IF b0 = \hE0 THEN \hA0 ELSE IF b0 = \hF0 THEN \h90 ELSE \h80
           hi == IF b0 = \hED THEN \h9F ELSE IF b0 = \hF4 THEN \h8F ELSE \hBF
           b1 == At(b, p + 1)
           b2 == At(b, p + 2)
           b3 == At(b, p + 3)
       IN IF p + sz > Len(b) THEN bad
          ELSE IF b1 < lo \/ b1 > hi THEN bad
          ELSE IF sz = 2
            THEN [r |-> BitOr(Shl(BitAnd(b0, \h1F), 6), BitAnd(b1, \h3F)), size |-> 2]
          ELSE IF b2 < \h80 \/ b2 > \hBF THEN bad
          ELSE IF sz = 3
            THEN [r |-> BitOr(BitOr(Shl(BitAnd(b0, \h0F), 12), Shl(BitAnd(b1, \h3F), 6)),
                              BitAnd(b2, \h3F)),
                  size |-> 3]
          ELSE IF b3 < \h80 \/ b3 > \hBF THEN bad
          ELSE [r |-> BitOr(BitOr(Shl(BitAnd(b0, \h07), 18), Shl(BitAnd(b1, \h3F), 12)),
                            BitOr(Shl(BitAnd(b2, \h3F), 6), BitAnd(b3, \h3F))),
                size |-> 4]

\* The scan of ValidString from byte offset p (rs and the next offset are
\* bound as values).
RECURSIVE ValidFrom(_, _)
ValidFrom(b, p) ==
  IF p >= Len(b) THEN TRUE
  ELSE \E rs \in {DecodeRuneInString(b, p)} :
         /\ ~(rs.r = RuneError /\ rs.size = 1)
         /\ \E q \in {p + rs.size} : ValidFrom(b, q)

\* utf8.ValidString(string(d))
ValidString(b) == ValidFrom(b, 0)

\* buf.WriteRune(rune(cp)): the standard UTF-8 bytes of cp
WriteRune(cp) ==
  IF cp < \h80 THEN <<Byte(cp)>>
  ELSE IF cp <= \h7FF
    THEN <<BitOr(\hC0, Byte(Shr(cp, 6))), BitOr(\h80, BitAnd(Byte(cp), \h3F))>>
  ELSE IF cp > \h10FFFF \/ (cp >= \hD800 /\ cp <= \hDFFF)
    THEN <<\hEF, \hBF, \hBD>>
  ELSE IF cp <= \hFFFF
    THEN <<BitOr(\hE0, Byte(Shr(cp, 12))),
           BitOr(\h80, BitAnd(Byte(Shr(cp, 6)), \h3F)),
           BitOr(\h80, BitAnd(Byte(cp), \h3F))>>
  ELSE <<BitOr(\hF0, Byte(Shr(cp, 18))),
         BitOr(\h80, BitAnd(Byte(Shr(cp, 12)), \h3F)),
         BitOr(\h80, BitAnd(Byte(Shr(cp, 6)), \h3F)),
         BitOr(\h80, BitAnd(Byte(cp), \h3F))>>

-----------------------------------------------------------------------------
(* Encode                                                                  *)

\* The three bytes tmp[0..2] written for a 16-bit value (lines 68-70, 76-78, 82-84).
ThreeBytes(r) ==
  <<Byte(BitOr(\hE0, BitAnd(Shr(r, 12), \h0F))),
    Byte(BitOr(\h80, BitAnd(Shr(r, 6), \h3F))),
    Byte(BitOr(\h80, BitAnd(r, \h3F)))>>

\* Variant: the offset 0x10000 is not subtracted before the shift.
HighSurrogate_NoOffset(r) == Shr(r, 10) + \hD800

\* r1 := ((r - 0x10000) >> 10) + 0xd800
HighSurrogate(r) == Shr(r - \h10000, 10) + \hD800

\* r2 := ((r - 0x10000) & 0x3ff) + 0xdc00
LowSurrogate(r) == BitAnd(r - \h10000, \h3FF) + \hDC00

\* Variant: NUL is written as the single byte 0x00, as standard UTF-8 does.
EncodeRune_ShortNUL(r) ==
  IF r >= 0 /\ r <= \h7F THEN <<Byte(r)>>
  ELSE IF r >= \h80 /\ r <= \h7FF
    THEN <<Byte(BitOr(\hC0, Shr(r, 6))), Byte(BitOr(\h80, BitAnd(r, \h3F)))>>
  ELSE IF r >= \h800 /\ r <= \hFFFF THEN ThreeBytes(r)
  ELSE IF r >= \h10000 /\ r <= \h10FFFF
    THEN ThreeBytes(HighSurrogate(r)) \o ThreeBytes(LowSurrogate(r))
  ELSE <<\hEF, \hBF, \hBD>>

\* The bytes the loop body writes to buf for rune r.
EncodeRune(r) ==
  IF r = 0 THEN <<\hC0, \h80>>
  ELSE IF r >= 1 /\ r <= \h7F THEN <<Byte(r)>>
  ELSE IF r >= \h80 /\ r <= \h7FF
    THEN <<Byte(BitOr(\hC0, Shr(r, 6))), Byte(BitOr(\h80, BitAnd(r, \h3F)))>>
  ELSE IF r >= \h800 /\ r <= \hFFFF THEN ThreeBytes(r)
  ELSE IF r >= \h10000 /\ r <= \h10FFFF
    THEN ThreeBytes(HighSurrogate(r)) \o ThreeBytes(LowSurrogate(r))
  ELSE <<\hEF, \hBF, \hBD>>

-----------------------------------------------------------------------------
(* Decode: the byte loop                                                   *)

\* Variant: if i+1 > len(d)
TooShort2_OffByOne(b, k) == k + 1 > Len(b)

\* if i+1 >= len(d)
TooShort2(b, k) == k + 1 >= Len(b)

\* Variant: if i+2 > len(d)
TooShort3_OffByOne(b, k) == k + 2 > Len(b)

\* if i+2 >= len(d)
TooShort3(b, k) == k + 2 >= Len(b)

\* if d[i] == 0xed && d[i+1] >= 0xa0 && d[i+1] <= 0xaf
IsHighSurrogate(b, k) ==
  At(b, k) = \hED /\ At(b, k + 1) >= \hA0 /\ At(b, k + 1) <= \hAF

\* Variant: if i+5 > len(d)
TooShortSurrogate_OffByOne(b, k) == k + 5 > Len(b)

\* if i+5 >= len(d)
TooShortSurrogate(b, k) == k + 5 >= Len(b)

\* Variant: d[i+4] > 0xb0 in place of d[i+4] >= 0xb0
IsLowSurrogate_Exclusive(b, k) ==
  ~(At(b, k + 3) # \hED \/ ~(At(b, k + 4) > \hB0 /\ At(b, k + 4) <= \hBF))

\* the negation of: d[i+3] != 0xed || !(d[i+4] >= 0xb0 && d[i+4] <= 0xbf)
IsLowSurrogate(b, k) ==
  ~(At(b, k + 3) # \hED \/ ~(At(b, k + 4) >= \hB0 /\ At(b, k + 4) <= \hBF))

\* Variant: the shift applied to the sum, (0x10000 + (c1 - 0xd800)) << 10 | (c2 - 0xdc00)
SurrogateCodepoint_ShiftedSum(b, k) ==
  LET c1 == BitOr(BitOr(Shl(BitAnd(At(b, k), \h0F), 12),
                        Shl(BitAnd(At(b, k + 1), \h3F), 6)),
                  BitAnd(At(b, k + 2), \h3F))
      c2 == BitOr(BitOr(Shl(BitAnd(At(b, k + 3), \h0F), 12),
                        Shl(BitAnd(At(b, k + 4), \h3F), 6)),
                  BitAnd(At(b, k + 5), \h3F))
  IN BitOr(Shl(\h10000 + (c1 - \hD800), 10), c2 - \hDC00)

\* c1, c2 and cp of the surrogate pair at d[i..i+5].  In Go `|` and `+` have
\* the same precedence and associate to the left:
\* cp = (0x10000 + ((c1 - 0xd800) << 10)) | (c2 - 0xdc00)
SurrogateCodepoint(b, k) ==
  LET c1 == BitOr(BitOr(Shl(BitAnd(At(b, k), \h0F), 12),
                        Shl(BitAnd(At(b, k + 1), \h3F), 6)),
                  BitAnd(At(b, k + 2), \h3F))
      c2 == BitOr(BitOr(Shl(BitAnd(At(b, k + 3), \h0F), 12),
                        Shl(BitAnd(At(b, k + 4), \h3F), 6)),
                  BitAnd(At(b, k + 5), \h3F))
  IN BitOr(\h10000 + Shl(c1 - \hD800, 10), c2 - \hDC00)

\* An iteration that returns ("", e) after reading up to index `reads`.
Fail(br, e, reads) ==
  [branch |-> br, i |-> 0, buf |-> <<>>, err |-> e, reads |-> reads]

\* An iteration that goes on with index k and buffer o.
Cont(br, k, o, reads) ==
  [branch |-> br, i |-> k, buf |-> o, err |-> "nil", reads |-> reads]

\* The branch of the if / else-if chain that the iteration at index k takes.
BranchAt(b, k) ==
  LET c == At(b, k) IN
  IF c = 0 THEN "nul"
  ELSE IF c < \h80 THEN "ascii"
  ELSE IF BitAnd(c, \hE0) = \hC0 THEN
    IF TooShort2(b, k) THEN "short2"
    ELSE IF c = \hC0 /\ At(b, k + 1) = \h80 THEN "nul2"
    ELSE "copy2"
  ELSE IF BitAnd(c, \hF0) = \hE0 THEN
    IF TooShort3(b, k) THEN "short3"
    ELSE IF IsHighSurrogate(b, k) THEN
      IF TooShortSurrogate(b, k) THEN "shortSurrogate"
      ELSE IF ~IsLowSurrogate(b, k) THEN "badSurrogate"
      ELSE "pair"
    ELSE "copy3"
  ELSE "badLead"

\* One iteration of `for i := 0; i < len(d); { ... }` at index k with buffer o:
\* what the branch taken returns or writes, and the highest index it reads.
LoopBody(b, k, o) ==
  LET c == At(b, k)
      br == BranchAt(b, k)
  IN CASE br = "nul" -> Fail(br, "errInvalidNUL", k)
       [] br = "ascii" -> Cont(br, k + 1, Append(o, c), k)
       [] br = "short2" -> Fail(br, "errTooShort", k)
       [] br = "nul2" -> Cont(br, k + 2, Append(o, 0), k + 1)
       [] br = "copy2" -> Cont(br, k + 2, o \o <<c, At(b, k + 1)>>, k + 1)
       [] br = "short3" -> Fail(br, "errTooShort", k)
       [] br = "shortSurrogate" -> Fail(br, "errTooShortSurrogate", k + 1)
       [] br = "badSurrogate" ->
            Fail(br, "errInvalidEncoding", IF At(b, k + 3) # \hED THEN k + 3 ELSE k + 4)
       [] br = "pair" ->
            Cont(br, k + 6, o \o WriteRune(SurrogateCodepoint(b, k)), k + 5)
       [] br = "copy3" -> Cont(br, k + 3, o \o <<c, At(b, k + 1), At(b, k + 2)>>, k + 2)
       [] br = "badLead" -> Fail(br, "errInvalidEncoding", k)

\* The whole loop from index k with buffer o, and the return after it:
\* Decode without the fast path.
RECURSIVE DecodeLoop(_, _, _)
DecodeLoop(b, k, o) ==
  IF k >= Len(b) THEN [str |-> o, err |-> "nil"]
  ELSE LET st == LoopBody(b, k, o)
       IN IF st.reads >= Len(b) THEN [str |-> <<>>, err |-> "panic"]
          ELSE IF st.err # "nil" THEN [str |-> <<>>, err |-> st.err]
          ELSE DecodeLoop(b, st.i, st.buf)

-----------------------------------------------------------------------------
(* Inputs                                                                  *)

\* Single bytes of the classes the loop distinguishes (NUL, ASCII, stray
\* continuation byte, 2-byte lead, 3-byte lead, longer lead), the units of
\* standard and of modified UTF-8 at the boundaries of the ranges, and the
\* vectors of the test file.
Fragments ==
  { <<\h00>>, <<\h41>>, <<\h80>>, <<\hC0>>, <<\hC2>>, <<\hED>>, <<\hF0>>,
    <<\hC0, \h80>>, <<\hC2, \h80>>, <<\hDF, \hBF>>,
    <<\hE0, \hA0, \h80>>, <<\hE6, \h97, \hA5>>, <<\hED, \h9F, \hBF>>,
    <<\hEF, \hBF, \hBF>>,
    <<\hED, \hA0, \hBD>>, <<\hED, \hB2, \hA9>>, <<\hED, \hB2>>,
    <<\hED, \hA0, \hBD, \hED, \hB2, \hA9>>,
    <<\hF0, \h90, \h80, \h80>>, <<\hF0, \h9F, \h92, \hA9>>,
    <<\hF4, \h8F, \hBF, \hBF>> }

RECURSIVE Concat(_)
Concat(n) ==
  IF n = 0 THEN {<<>>}
  ELSE LET prev == Concat(n - 1)
       IN prev \cup {p \o f : p \in prev, f \in Fragments}

Inputs == Concat(MaxUnits)

-----------------------------------------------------------------------------
(* The state machine                                                       *)

Init ==
  /\ test \in {"roundtrip", "decode"}
  /\ \E in \in Inputs :
       /\ s = (IF test = "roundtrip" THEN in ELSE <<>>)
       /\ d = (IF test = "decode" THEN in ELSE <<>>)
  /\ pc = (IF test = "roundtrip" THEN "encode" ELSE "decode")
  /\ epos = 0
  /\ ebuf = <<>>
  /\ i = 0
  /\ buf = <<>>
  /\ str = <<>>
  /\ err = "nil"

\* Encode: one iteration of `for _, r := range s`
EncodeRange ==
  /\ pc = "encode"
  /\ epos < Len(s)
  /\ \E rs \in {DecodeRuneInString(s, epos)} :
       /\ ebuf' = ebuf \o EncodeRune(rs.r)
       /\ epos' = epos + rs.size
  /\ UNCHANGED <<test, s, d, i, buf, str, err, pc>>

\* Encode: `return buf.Bytes()`, handed to Decode by TestEncodeDecodeAll
EncodeReturn ==
  /\ pc = "encode"
  /\ epos >= Len(s)
  /\ d' = ebuf
  /\ pc' = "decode"
  /\ UNCHANGED <<test, s, epos, ebuf, i, buf, str, err>>

\* Decode: the input is valid standard UTF-8 and is returned as it is
DecodeFastPath ==
  /\ pc = "decode"
  /\ ValidString(d)
  /\ str' = d
  /\ err' = "nil"
  /\ pc' = "done"
  /\ UNCHANGED <<test, s, epos, ebuf, d, i, buf>>

\* Decode: otherwise the byte loop starts at i = 0 with an empty buffer
DecodeSlowPath ==
  /\ pc = "decode"
  /\ ~ValidString(d)
  /\ i' = 0
  /\ buf' = <<>>
  /\ pc' = "loop"
  /\ UNCHANGED <<test, s, epos, ebuf, d, str, err>>

\* Decode: the effect of the iteration at the current index on the state
Commit ==
  /\ \E st \in {LoopBody(d, i, buf)} :
       IF st.reads >= Len(d)
         THEN pc' = "panic" /\ UNCHANGED <<i, buf, str, err>>
       ELSE IF st.err # "nil"
         THEN pc' = "done" /\ str' = <<>> /\ err' = st.err /\ UNCHANGED <<i, buf>>
       ELSE pc' = "loop" /\ i' = st.i /\ buf' = st.buf /\ UNCHANGED <<str, err>>
  /\ UNCHANGED <<test, s, epos, ebuf, d>>

\* The branch the iteration at the current index takes
Branch == IF pc = "loop" /\ i < Len(d) THEN BranchAt(d, i) ELSE "none"

\* Decode, one iteration: d[i] == 0
DecodeNUL ==
  /\ Branch = "nul"
  /\ Commit

\* Decode, one iteration: d[i] < 0x80
DecodeASCII ==
  /\ Branch = "ascii"
  /\ Commit

\* Decode, one iteration: 2 bytes, i+1 >= len(d)
DecodeShort2 ==
  /\ Branch = "short2"
  /\ Commit

\* Decode, one iteration: 2 bytes, 0xc0 0x80
DecodeOverlongNUL ==
  /\ Branch = "nul2"
  /\ Commit

\* Decode, one iteration: 2 bytes, copied
DecodeCopy2 ==
  /\ Branch = "copy2"
  /\ Commit

\* Decode, one iteration: 3 bytes, i+2 >= len(d)
DecodeShort3 ==
  /\ Branch = "short3"
  /\ Commit

\* Decode, one iteration: first surrogate, i+5 >= len(d)
DecodeShortSurrogate ==
  /\ Branch = "shortSurrogate"
  /\ Commit

\* Decode, one iteration: first surrogate, not followed by the second
DecodeBadSurrogate ==
  /\ Branch = "badSurrogate"
  /\ Commit

\* Decode, one iteration: the whole surrogate pair
DecodeSurrogatePair ==
  /\ Branch = "pair"
  /\ Commit

\* Decode, one iteration: 3 bytes, copied
DecodeCopy3 ==
  /\ Branch = "copy3"
  /\ Commit

\* Decode, one iteration: would be >3 bytes
DecodeBadLead ==
  /\ Branch = "badLead"
  /\ Commit

\* Decode: `return buf.String(), nil`
DecodeReturn ==
  /\ pc = "loop"
  /\ i >= Len(d)
  /\ str' = buf
  /\ err' = "nil"
  /\ pc' = "done"
  /\ UNCHANGED <<test, s, epos, ebuf, d, i, buf>>

Next ==
  \/ EncodeRange
  \/ EncodeReturn
  \/ DecodeFastPath
  \/ DecodeSlowPath
  \/ DecodeNUL
  \/ DecodeASCII
  \/ DecodeShort2
  \/ DecodeOverlongNUL
  \/ DecodeCopy2
  \/ DecodeShort3
  \/ DecodeShortSurrogate
  \/ DecodeBadSurrogate
  \/ DecodeSurrogatePair
  \/ DecodeCopy3
  \/ DecodeBadLead
  \/ DecodeReturn

Spec == Init /\ [][Next]_vars

\* Both functions are synchronous and run to completion: a call that can
\* take a step takes it.
FairSpec == Spec /\ WF_vars(Next)

-----------------------------------------------------------------------------
(* Vocabulary of the properties: the byte grammar of modified UTF-8,       *)
(* written with arithmetic only.                                           *)

DecodeErrors ==
  {"errInvalidNUL", "errTooShort", "errTooShortSurrogate", "errInvalidEncoding"}

\* 10xxxxxx
IsCont(c) == c \div 64 = 2

\* 110xxxxx
Is2Lead(c) == c \div 32 = 6

\* 1110xxxx
Is3Lead(c) == c \div 16 = 14

\* The value of the three bytes at p by the 3-byte rule.
TripletValue(b, p) ==
  (At(b, p) % 16) * 4096 + (At(b, p + 1) % 64) * 64 + (At(b, p + 2) % 64)

\* The length of the well-formed unit that starts at p (1, 2, 3 or 6), or 0.
UnitLen(b, p) ==
  LET c == At(b, p) IN
  IF p >= Len(b) THEN 0
  ELSE IF c >= 1 /\ c < 128 THEN 1
  ELSE IF Is2Lead(c)
    THEN IF p + 1 < Len(b) /\ IsCont(At(b, p + 1)) THEN 2 ELSE 0
  ELSE IF Is3Lead(c) THEN
    IF ~(p + 2 < Len(b) /\ IsCont(At(b, p + 1)) /\ IsCont(At(b, p + 2))) THEN 0
    ELSE IF TripletValue(b, p) \in 55296..56319 THEN
      IF /\ p + 5 < Len(b)
         /\ Is3Lead(At(b, p + 3)) /\ IsCont(At(b, p + 4)) /\ IsCont(At(b, p + 5))
         /\ TripletValue(b, p + 3) \in 56320..57343
      THEN 6 ELSE 0
    ELSE 3
  ELSE 0

\* b[q..p) is a sequence of well-formed units.
RECURSIVE UnitsFrom(_, _, _)
UnitsFrom(b, q, p) ==
  IF q = p THEN TRUE
  ELSE IF q > p \/ UnitLen(b, q) = 0 THEN FALSE
  ELSE UnitsFrom(b, q + UnitLen(b, q), p)

\* p is a lead position: every unit before it is well formed.
LeadPosition(b, p) == p < Len(b) /\ UnitsFrom(b, 0, p)

\* A surrogate triplet: a 3-byte lead, a continuation byte and a third byte
\* (read unchecked by the loop), of value in the high or in the low range.
HighTripletAt(b, p) ==
  Is3Lead(At(b, p)) /\ IsCont(At(b, p + 1)) /\ TripletValue(b, p) \in 55296..56319

LowTripletAt(b, p) ==
  Is3Lead(At(b, p)) /\ IsCont(At(b, p + 1)) /\ TripletValue(b, p) \in 56320..57343

\* The 3 bytes of a 16-bit value and the 4 bytes of a supplementary codepoint
\* in standard UTF-8.
Ref3(x) == <<224 + (x \div 4096), 128 + ((x \div 64) % 64), 128 + (x % 64)>>

Ref4(x) ==
  <<240 + (x \div 262144), 128 + ((x \div 4096) % 64), 128 + ((x \div 64) % 64),
    128 + (x % 64)>>

\* The reference table of the encoder, codepoint by codepoint, for a string
\* of scalar codepoints: the codepoint at p is read off the string, and the
\* standard UTF-8 bytes of a codepoint are the bytes it occupies there.
RECURSIVE RefEncode(_, _)
RefEncode(b, p) ==
  IF p >= Len(b) THEN <<>>
  ELSE
    LET rs == DecodeRuneInString(b, p)
        cp == rs.r
        high == ((cp - 65536) \div 1024) + 55296
        low == ((cp - 65536) % 1024) + 56320
        unit == IF cp = 0 THEN <<192, 128>>
                ELSE IF cp <= 65535 THEN SubSeq(b, p + 1, p + rs.size)
                ELSE Ref3(high) \o Ref3(low)
    IN unit \o RefEncode(b, p + rs.size)

-----------------------------------------------------------------------------
(* Properties                                                              *)

\* C1: round trip.  For every string s of scalar codepoints (valid UTF-8,
\* so no surrogates), Decode(Encode(s)) returns exactly s and no error.
C1_RoundTrip ==
  (test = "roundtrip" /\ pc \in {"done", "panic"} /\ ValidString(s))
    => (pc = "done" /\ err = "nil" /\ str = s)

\* NUL followed by U+1F4A9 went through Encode and Decode.
C1_Witness ==
  /\ test = "roundtrip" /\ pc = "done"
  /\ s = <<0, 240, 159, 146, 169>>
  /\ d = <<192, 128, 237, 160, 189, 237, 178, 169>>
  /\ str = s

C4_NoNulNoLongForm ==
  test = "roundtrip" => \A k \in 1..Len(ebuf) : ebuf[k] # 0 /\ ebuf[k] < 240

\* A string with a NUL and a supplementary codepoint has been encoded.
C4_Witness ==
  /\ test = "roundtrip" /\ pc = "decode"
  /\ s = <<0, 244, 143, 191, 191>>
  /\ Len(ebuf) = 8

\* C5: Decode is total.  No read is past the end of d, the index grows on
\* every iteration, the call returns, and it returns either a string and no
\* error or the empty string and one of the four errors.
C5_DecodeTotal ==
  /\ [](pc # "panic")
  /\ [](pc = "done" => (err = "nil" \/ (err \in DecodeErrors /\ str = <<>>)))
  /\ [][(pc = "loop" /\ pc' = "loop") => i' > i]_vars
  /\ <>(pc = "done")

\* The loop went past a well-formed unit and then returned an error.
C5_Witness ==
  /\ test = "decode" /\ pc = "done"
  /\ d = <<65, 237, 160, 189>>
  /\ i = 1 /\ err = "errTooShortSurrogate" /\ str = <<>>

\* C6: truncation.  At a lead position p, a 2-byte lead with nothing after
\* it or a 3-byte lead with fewer than 2 bytes after it gives errTooShort; a
\* high-surrogate triplet (0xED, 0xA0-0xAF, any) with fewer than 3 bytes
\* after it gives errTooShortSurrogate, whatever those bytes are.
C6_Truncation ==
  pc \in {"done", "panic"} =>
    \A p \in 0..(Len(d) - 1) :
      LeadPosition(d, p) =>
        /\ (Is2Lead(At(d, p)) /\ p + 1 >= Len(d))
             => (pc = "done" /\ err = "errTooShort" /\ str = <<>>)
        /\ (Is3Lead(At(d, p)) /\ p + 2 >= Len(d))
             => (pc = "done" /\ err = "errTooShort" /\ str = <<>>)
        /\ (/\ At(d, p) = 237 /\ p + 2 < Len(d)
            /\ At(d, p + 1) \in 160..175 /\ p + 5 >= Len(d))
             => (pc = "done" /\ err = "errTooShortSurrogate" /\ str = <<>>)

\* A high surrogate followed by one byte that is no low surrogate: the
\* missing bytes are reported, not the wrong follower.
C6_Witness ==
  /\ pc = "done"
  /\ d = <<237, 160, 189, 65>>
  /\ err = "errTooShortSurrogate"

\* C8: surrogate pairs.  When the loop stands on a high-surrogate triplet (a
\* 3-byte lead, a continuation byte and a third byte, of value in
\* 0xD800..0xDBFF) with at least 3 bytes after it, then either the next
\* triplet is a low surrogate (value in 0xDC00..0xDFFF) and the step appends
\* the one codepoint 0x10000 + ((high - 0xD800) << 10) + (low - 0xDC00), in
\* 0x10000..0x10FFFF, and advances by 6, or Decode returns errInvalidEncoding.
C8_SurrogatePair ==
  [][(pc = "loop" /\ i + 5 < Len(d) /\ HighTripletAt(d, i)) =>
       IF LowTripletAt(d, i + 3)
         THEN LET cp == 65536 + (TripletValue(d, i) - 55296) * 1024
                           + (TripletValue(d, i + 3) - 56320)
              IN /\ cp \in 65536..1114111
                 /\ pc' = "loop" /\ i' = i + 6
                 /\ buf' = buf \o Ref4(cp)
         ELSE pc' = "done" /\ err' = "errInvalidEncoding" /\ str' = <<>>]_vars

\* The pair of the test file was decoded to U+1F4A9 after an overlong NUL.
C8_Witness ==
  /\ test = "decode" /\ pc = "done"
  /\ d = <<192, 128, 237, 160, 189, 237, 178, 169>>
  /\ str = <<0, 240, 159, 146, 169>> /\ err = "nil"

\* C3: a 0x00 byte at a lead position makes Decode return errInvalidNUL.
C3_StandaloneNulRejected ==
  (pc = "done" /\ \E p \in 0..(Len(d) - 1) : LeadPosition(d, p) /\ At(d, p) = 0)
    => (err = "errInvalidNUL" /\ str = <<>>)

\* C7: Decode returns what the byte loop alone returns.
C7_FastPathEquivalent ==
  pc = "done" => [str |-> str, err |-> err] = DecodeLoop(d, 0, <<>>)

\* C9: a byte at a lead position that is neither 0x00, ASCII, a 2-byte lead
\* nor a 3-byte lead makes Decode return errInvalidEncoding.
C9_UnsupportedLeadRejected ==
  (pc = "done" /\ \E p \in 0..(Len(d) - 1) :
       /\ LeadPosition(d, p)
       /\ At(d, p) >= 128 /\ ~Is2Lead(At(d, p)) /\ ~Is3Lead(At(d, p)))
    => (err = "errInvalidEncoding" /\ str = <<>>)

\* C10: Decode returns an error when, at a lead position, a 2-byte lead is
\* followed by a byte that is no continuation byte, or a 3-byte lead has a
\* second or third byte that is no continuation byte.
C10_ContinuationBytesValidated ==
  (pc = "done" /\ \E p \in 0..(Len(d) - 1) :
       /\ LeadPosition(d, p)
       /\ \/ Is2Lead(At(d, p)) /\ p + 1 < Len(d) /\ ~IsCont(At(d, p + 1))
          \/ /\ Is3Lead(At(d, p)) /\ p + 2 < Len(d)
             /\ (~IsCont(At(d, p + 1)) \/ ~IsCont(At(d, p + 2))))
    => err # "nil"

====
